---- MODULE Spec2Model ----
(***************************************************************************)
(* CodeFormatManager (nuclide-code-format): the provider registry and the  *)
(* per-buffer arbitration of command, save and type triggers.              *)
(*                                                                         *)
(* Strings are sequences of one-character strings.  The text of a buffer   *)
(* is abstracted to a small number; two texts are equal iff the numbers    *)
(* are equal.                                                              *)
(***************************************************************************)
EXTENDS Integers, Sequences, FiniteSets, TLC

VARIABLES
  providers,      \* this._codeFormatProviders, in registration order
  disposable,     \* providers whose addProvider disposer was not yet invoked
  resolved,       \* the provider resolution the last step observed
  subscription,   \* this._subscriptions: "open", "disposed" or "errored"
  editor,         \* editor[d]: "open" or "destroyed" (with its buffer)
  text,           \* text[d]: editor.getText()
  intercepted,    \* intercepted[d]: editor.save is replaced by observer.next
  deb,            \* deb[d]: the value held by debounceTime(0), or NoEdit
  nTrig,          \* number of triggers that reached _handleEvent so far
  latest,         \* latest[d]: id of the last trigger that reached d's group
  active,         \* subscribed inner observables of the per-buffer switchMap
  pending,        \* provider promises not yet settled
  reported,       \* the error the last step reported (notification or warning)
  saves,          \* saves[id]: buffer.save() calls made for save trigger id
  applied,        \* the buffer mutation the last step made for a formatting result
  destroyedOps,   \* command/type operations in flight when their buffer died
  handled,        \* the event _handleEvent took in the last step, and its call
  formatOnSave,   \* atom.config: nuclide-code-format.formatOnSave, as it is now
  atom,           \* bracket-matcher: is the package active, and its pairs
  probe           \* a call of one of the module's functions, with its result

vars == <<providers, disposable, resolved, subscription, editor, text, intercepted, deb, nTrig, latest, active,
          pending, reported, saves, applied, destroyedOps, handled,
          formatOnSave, atom, probe>>

registryVars == <<providers, disposable, resolved>>

docVars == <<subscription, editor, text, intercepted,
             deb, nTrig, latest, active, pending, reported, saves, applied, destroyedOps, handled>>

\* What the manager never writes: the configuration and the function probe
hostVars == <<formatOnSave, atom, probe>>

(***************************************************************************)
(* Bounds                                                                  *)
(***************************************************************************)
MaxProviders == 3
MaxTrig == 2
MaxBurst == 2

None == "none"

\* Values of applied, reported and resolved when there is none
NoApply == [id |-> 0, doc |-> 0, kind |-> None, contents |-> 0, on |-> 0,
            latest |-> 0]
NoReport == [id |-> 0, doc |-> 0, kind |-> None, channel |-> None,
             err |-> None]
NoResolution == [from |-> <<>>, scopeName |-> <<>>, result |-> <<>>]
NoPoint == [row |-> 0 - 1, column |-> 0 - 1]
NoRange == [start |-> NoPoint, end |-> NoPoint]
NoHandled == [id |-> 0, doc |-> 0, kind |-> None, selection |-> NoRange,
              caps |-> {}, api |-> None, range |-> NoRange]

(***************************************************************************)
(* Providers.  A provider object is a record; object identity is record    *)
(* equality (the name field tells apart providers with equal attributes).  *)
(***************************************************************************)
Provider(name, prio, sel, caps) ==
  [name |-> name, inclusionPriority |-> prio, selector |-> sel, caps |-> caps]

PA1 == Provider("PA1", 1, <<"a">>, {"formatCode", "formatAtPosition"})
PA5 == Provider("PA5", 5, <<"a", ",", " ", "b">>, {"formatEntireFile"})
PB5 == Provider("PB5", 5, <<"b", ",", "a">>, {"formatCode", "formatEntireFile"})
PZ0 == Provider("PZ0", 0, <<"a">>, {"formatCode"})
PC9 == Provider("PC9", 9, <<"c">>, {"formatCode", "formatAtPosition"})

ProviderUniverse == {PA1, PA5, PB5, PZ0, PC9}

ScopeNames == {<<"a">>, <<"b">>}

(***************************************************************************)
(* String.prototype.split(/, ?/): cut at every comma, dropping one space   *)
(* that follows it.                                                        *)
(***************************************************************************)
RECURSIVE SplitFrom(_, _, _, _)
SplitFrom(s, i, cur, acc) ==
  IF i > Len(s) THEN Append(acc, cur)
  ELSE IF s[i] = ","
       THEN IF i + 1 <= Len(s) /\ s[i + 1] = " "
            THEN SplitFrom(s, i + 2, <<>>, Append(acc, cur))
            ELSE SplitFrom(s, i + 1, <<>>, Append(acc, cur))
       ELSE SplitFrom(s, i + 1, Append(cur, s[i]), acc)

Split(s) == SplitFrom(s, 1, <<>>, <<>>)

\* Array.prototype.indexOf, as a 1-based index; 0 stands for -1.
RECURSIVE IndexFrom(_, _, _)
IndexFrom(seq, x, i) ==
  IF i > Len(seq) THEN 0
  ELSE IF seq[i] = x THEN i ELSE IndexFrom(seq, x, i + 1)

IndexOf(seq, x) == IndexFrom(seq, x, 1)

(***************************************************************************)
(* The comparator handed to Array.prototype.sort returns a boolean, which  *)
(* sort reads as the number 1 or 0: it never answers "a before b".         *)
(***************************************************************************)
Comparator(providerA, providerB) ==
  IF providerA.inclusionPriority < providerB.inclusionPriority THEN 1 ELSE 0

(***************************************************************************)
(* Array.prototype.sort with a comparator that is not a consistent         *)
(* comparison leaves the order to the engine.  Two engines the package     *)
(* runs on are modelled, each as it computes:                              *)
(*   - insertion sort (V8 before 7.0, arrays of up to 10 elements): an     *)
(*     element moves left past every element e with compare(e, x) > 0;     *)
(*   - binary insertion (the TimSort of V8 7.0 and later, short arrays):   *)
(*     an element moves left of the middle only when compare(x, mid) < 0.  *)
(***************************************************************************)
RECURSIVE InsertLeft(_, _)
InsertLeft(sorted, x) ==
  IF sorted = <<>> THEN <<x>>
  ELSE LET tmp == sorted[Len(sorted)]
       IN IF Comparator(tmp, x) > 0
          THEN Append(InsertLeft(SubSeq(sorted, 1, Len(sorted) - 1), x), tmp)
          ELSE Append(sorted, x)

RECURSIVE InsertionSortFrom(_, _)
InsertionSortFrom(sorted, rest) ==
  IF rest = <<>> THEN sorted
  ELSE InsertionSortFrom(InsertLeft(sorted, Head(rest)), Tail(rest))

InsertionSort(seq) == InsertionSortFrom(<<>>, seq)

RECURSIVE BinarySearch(_, _, _, _)
BinarySearch(sorted, pivot, left, right) ==
  IF left >= right THEN left
  ELSE LET mid == left + ((right - left) \div 2)
       IN IF Comparator(pivot, sorted[mid + 1]) < 0
          THEN BinarySearch(sorted, pivot, left, mid)
          ELSE BinarySearch(sorted, pivot, mid + 1, right)

RECURSIVE BinaryInsertionFrom(_, _)
BinaryInsertionFrom(sorted, rest) ==
  IF rest = <<>> THEN sorted
  ELSE LET pivot == Head(rest)
           at == BinarySearch(sorted, pivot, 0, Len(sorted))
       IN BinaryInsertionFrom(
            SubSeq(sorted, 1, at) \o <<pivot>> \o SubSeq(sorted, at + 1, Len(sorted)),
            Tail(rest))

BinaryInsertionSort(seq) == BinaryInsertionFrom(<<>>, seq)

\* The orders matchingProviders.sort(...) can produce.
SortOutcomes(seq) == {InsertionSort(seq), BinaryInsertionSort(seq)}

(***************************************************************************)
(* _getMatchingProvidersForScopeName: the lists it can return.             *)
(***************************************************************************)
SelectorMatches(provider, scopeName) ==
  /\ provider.inclusionPriority > 0
  /\ IndexOf(Split(provider.selector), scopeName) # 0

MatchingProvidersForScopeName(list, scopeName) ==
  LET Test(provider) == SelectorMatches(provider, scopeName)
  IN SortOutcomes(SelectSeq(list, Test))

(***************************************************************************)
(* addProvider and the disposer it returns.                                *)
(***************************************************************************)
\* Array.prototype.splice(index) with one argument: drops the element at
\* index (1-based here) and every element after it.
Splice(list, index) == SubSeq(list, 1, index - 1)

RemoveProvider(list, provider) ==
  LET index == IndexOf(list, provider)
  IN IF index # 0 THEN Splice(list, index) ELSE list

addProvider(provider) ==
  /\ Len(providers) < MaxProviders
  /\ provider \notin disposable
  /\ providers' = Append(providers, provider)
  /\ disposable' = disposable \cup {provider}
  /\ resolved' = NoResolution

DisposeProvider(provider) ==
  /\ provider \in disposable
  /\ providers' = RemoveProvider(providers, provider)
  /\ disposable' = disposable \ {provider}
  /\ resolved' = NoResolution

\* A caller resolves the providers of a scope name; the outcome is recorded.
ResolveProviders(scopeName) ==
  /\ \E result \in MatchingProvidersForScopeName(providers, scopeName) :
       resolved' = [from |-> providers, scopeName |-> scopeName,
                    result |-> result]
  /\ UNCHANGED <<providers, disposable>>

(***************************************************************************)
(* Documents, edits, selections                                            *)
(***************************************************************************)
\* The open documents: one buffer with one editor each
Docs == {1, 2}
\* Buffer contents: two texts tell an unchanged buffer from a changed one,
\* and a buffer changed back.
Texts == {0, 1}

\* editor.getGrammar().scopeName
Grammar(d) == IF d = 1 THEN <<"a">> ELSE <<"b">>

NoEdit == [oldText |-> <<"-">>, newText |-> <<"-">>]
TypedChar == [oldText |-> <<>>, newText |-> <<"x">>]
TypedBracket == [oldText |-> <<>>, newText |-> <<"{", "}">>]
Replaced == [oldText |-> <<"a">>, newText |-> <<"b">>]

\* atom$TextEditEvent values the host delivers for user edits; Replaced is
\* what the buffer delivers for the edits of a formatting result.
UserEdits == {TypedChar}

Pos(row, column) == [row |-> row, column |-> column]
Rng(start, end) == [start |-> start, end |-> end]

\* editor.getSelectedBufferRange() values
Selections == {Rng(Pos(3, 4), Pos(3, 4)), Rng(Pos(2, 5), Pos(2, 10)),
               Rng(Pos(1, 3), Pos(4, 0))}

\* buffer.getRange()
BufferRange == Rng(Pos(0, 0), Pos(9, 0))

IsEmptyRange(range) == range.start = range.end

\* editor.getCursorBufferPosition() once the cursor has settled
CursorBufferPosition == Pos(3, 5)

\* Point.translate
Translate(point, rows, columns) ==
  Pos(point.row + rows, point.column + columns)

(***************************************************************************)
(* shouldFormatOnType and isBracketPair                                    *)
(***************************************************************************)
\* The bracket-matcher package as installed: active, with its pairs
DefaultAtom ==
  [active |-> TRUE,
   autocompleteCharacters |-> <<<<"(", ")">>, <<"[", "]">>, <<"{", "}">>>>]

\* atom.packages.getActivePackage('bracket-matcher') != null
BracketMatcherActive == atom.active

\* atom.config.get('bracket-matcher.autocompleteCharacters')
AutocompleteCharacters == atom.autocompleteCharacters

\* Mutant of isBracketPair: the package is not asked for.
isBracketPairOfAnyPackage(typedText) ==
  IndexOf(AutocompleteCharacters, typedText) # 0

isBracketPair(typedText) ==
  IF ~BracketMatcherActive THEN FALSE
  ELSE IndexOf(AutocompleteCharacters, typedText) # 0

shouldFormatOnType(event) ==
  IF event.oldText # <<>> THEN FALSE
  ELSE IF event.oldText = <<>> /\ event.newText = <<>> THEN FALSE
  ELSE IF Len(event.newText) > 1 /\ ~isBracketPair(event.newText) THEN FALSE
  ELSE TRUE

\* The character handed to formatAtPosition for an accepted edit
TriggerCharacter(event) == event.newText[Len(event.newText)]

(***************************************************************************)
(* Operations (inner observables of the switchMap) and provider calls      *)
(***************************************************************************)
Op(id, d, kind, contents, phase, api, character) ==
  [id |-> id, doc |-> d, kind |-> kind, contents |-> contents,
   phase |-> phase, api |-> api, character |-> character]

\* A call of a provider method; issuedOn is the text at the call.
Request(op, range) ==
  [id |-> op.id, doc |-> op.doc, api |-> op.api,
   character |-> op.character, issuedOn |-> text[op.doc]]

\* No callback queued with process.nextTick is waiting: nextTick callbacks
\* run before any timer, promise reaction or host event.
NoTick == \A op \in active : op.phase # "tick"

\* Mutant of ContentsAreSame: the check never throws.
ContentsNeverChecked(before, after) == TRUE

\* _checkContentsAreSame does not throw
ContentsAreSame(before, after) == before = after

\* Mutant of Superseded: one switchMap for all buffers, without groupBy.
SupersededOfAnyBuffer(d) == active

\* Mutant of Superseded: mergeMap in place of switchMap, nothing is
\* unsubscribed when a new event arrives.
SupersededNone(d) == {}

\* switchMap: the inner observables unsubscribed when a new event of
\* buffer d arrives
Superseded(d) == {op \in active : op.doc = d}

\* Mutant of TornDown: no duration selector, the group outlives its buffer.
TornDownNone(d) == {}

\* The group of buffer d completes on onDidDestroy and the concatenated
\* null event switches to Observable.empty(): these are unsubscribed.
TornDown(d) == {op \in active : op.doc = d}

\* Mutant of Channel: every case reports with atom.notifications.addError.
ChannelAlwaysNotification(kind) == "notification"

\* How atom is told about the error caught for an event of this type
Channel(kind) == IF kind = "command" THEN "notification" ELSE "warning"

\* Mutant of Caught: the type case has no .catch(...).
CaughtButType(kind) == kind \in {"command", "save"}

\* Every case of _handleEvent ends in .catch(...) returning Observable.empty()
Caught(kind) == kind \in {"command", "type", "save"}

\* Mutant of SaveCalls: the save is made when the inner observable completes
\* or errors, not when it is unsubscribed.
SaveCallsUnlessUnsubscribed(kind, how) ==
  IF kind = "save" /\ how # "unsubscribe" THEN 1 ELSE 0

\* .finally(() => editor.getBuffer().save()) on the save case: the number of
\* buffer.save() calls when an inner observable ends in the given way
\* ("complete", "error" or "unsubscribe").
SaveCalls(kind, how) == IF kind = "save" THEN 1 ELSE 0

End(op, how) == [id |-> op.id, kind |-> op.kind, how |-> how]

Unsubscribed(ops) == {End(op, "unsubscribe") : op \in ops}

\* Mutant of NextSaves: the buffer is saved when the save event arrives, and
\* again when its inner observable ends.
NextSavesOnArrival(newIds, ended) ==
  [id \in (DOMAIN saves) \cup newIds |->
     (IF id \in DOMAIN saves THEN saves[id] ELSE 1)
     + (IF \E e \in ended : e.id = id
        THEN LET e == CHOOSE x \in ended : x.id = id
             IN SaveCalls(e.kind, e.how)
        ELSE 0)]

NextSaves(newIds, ended) ==
  [id \in (DOMAIN saves) \cup newIds |->
     (IF id \in DOMAIN saves THEN saves[id] ELSE 0)
     + (IF \E e \in ended : e.id = id
        THEN LET e == CHOOSE x \in ended : x.id = id
             IN SaveCalls(e.kind, e.how)
        ELSE 0)]

Report(op, err) ==
  [id |-> op.id, doc |-> op.doc, kind |-> op.kind,
   channel |-> Channel(op.kind), err |-> err]

\* The inner observable of op errors with err; ended are the other inner
\* observables that end in the same step, newIds the save triggers started.
Errors(op, err, newIds, ended) ==
  /\ reported' = Report(op, err)
  /\ saves' = NextSaves(newIds, ended \cup {End(op, "error")})
  /\ subscription' = IF Caught(op.kind) THEN subscription ELSE "errored"

Completes(op, newIds, ended) ==
  /\ reported' = NoReport
  /\ saves' = NextSaves(newIds, ended \cup {End(op, "complete")})
  /\ UNCHANGED subscription

(***************************************************************************)
(* _formatCodeInTextEditor: the synchronous part inside Observable.defer   *)
(***************************************************************************)
HasCodeOrFile(provider) ==
  "formatCode" \in provider.caps \/ "formatEntireFile" \in provider.caps

\* Mutant of HasAtPosition: any provider with a format method passes.
HasAnyMethod(provider) == provider.caps # {}

HasAtPosition(provider) == "formatAtPosition" \in provider.caps

CodeProviders(d) ==
  {SelectSeq(m, HasCodeOrFile) :
     m \in MatchingProvidersForScopeName(providers, Grammar(d))}

PositionProviders(d) ==
  {SelectSeq(m, HasAtPosition) :
     m \in MatchingProvidersForScopeName(providers, Grammar(d))}

\* Mutant of FormatRange: the end always snaps to the row after the selection.
FormatRangeAlwaysNextRow(selectionRange) ==
  IF IsEmptyRange(selectionRange) THEN BufferRange
  ELSE Rng(Pos(selectionRange.start.row, 0),
           Pos(selectionRange.end.row + 1, 0))

FormatRange(selectionRange) ==
  IF IsEmptyRange(selectionRange) THEN BufferRange
  ELSE Rng(Pos(selectionRange.start.row, 0),
           IF selectionRange.end.column = 0 THEN selectionRange.end
           ELSE Pos(selectionRange.end.row + 1, 0))

\* Mutant of ChooseApi: formatCode whenever the provider has it.
ChooseApiCodeFirst(provider, selectionRangeEmpty) ==
  IF "formatCode" \in provider.caps THEN "formatCode"
  ELSE IF "formatEntireFile" \in provider.caps THEN "formatEntireFile"
  ELSE None

ChooseApi(provider, selectionRangeEmpty) ==
  IF "formatCode" \in provider.caps
     /\ (~selectionRangeEmpty \/ "formatEntireFile" \notin provider.caps)
  THEN "formatCode"
  ELSE IF "formatEntireFile" \in provider.caps THEN "formatEntireFile"
  ELSE None

\* What a provider promise can be fulfilled with: text edits (none, some that
\* apply, some that the buffer rejects) or the formatted text.
Responses(api) ==
  IF api = "formatEntireFile"
  THEN {[edits |-> "some", to |-> v] : v \in Texts}
  ELSE {[edits |-> "none", to |-> 0], [edits |-> "rejected", to |-> 0]}
       \cup {[edits |-> "some", to |-> v] : v \in Texts}

\* _handleEvent for a command or save event of buffer d.
HandleFormat(kind, d, selectionRange) ==
  LET id == nTrig + 1
      old == Superseded(d)
      newIds == IF kind = "save" THEN {id} ELSE {}
  IN /\ nTrig < MaxTrig
     /\ nTrig' = id
     /\ latest' = [latest EXCEPT ![d] = id]
     /\ applied' = NoApply
     /\ \E matchingProviders \in CodeProviders(d), callThrows \in BOOLEAN :
          LET api == IF matchingProviders = <<>> THEN None
                     ELSE ChooseApi(Head(matchingProviders),
                                    IsEmptyRange(selectionRange))
              op == Op(id, d, kind, text[d], "wait", api, None)
              provider == IF matchingProviders = <<>> THEN Provider("", 0, <<>>, {})
                          ELSE Head(matchingProviders)
          IN /\ handled' = [id |-> id, doc |-> d, kind |-> kind,
                           selection |-> selectionRange,
                           caps |-> provider.caps, api |-> api,
                           range |-> IF api = None THEN NoRange
                                     ELSE FormatRange(selectionRange)]
             /\ IF matchingProviders = <<>>
                THEN /\ ~callThrows
                     /\ Errors(op, "noProvider", newIds, Unsubscribed(old))
                     /\ active' = active \ old
                     /\ UNCHANGED pending
                ELSE IF api = None
                THEN /\ ~callThrows
                     /\ Errors(op, "notImplemented", newIds, Unsubscribed(old))
                     /\ active' = active \ old
                     /\ UNCHANGED pending
                ELSE IF callThrows
                THEN /\ Errors(op, "provider", newIds, Unsubscribed(old))
                     /\ active' = active \ old
                     /\ UNCHANGED pending
                ELSE /\ active' = (active \ old) \cup {op}
                     /\ pending' = pending \cup
                          {Request(op, FormatRange(selectionRange))}
                     /\ saves' = NextSaves(newIds, Unsubscribed(old))
                     /\ reported' = NoReport
                     /\ UNCHANGED subscription
     /\ UNCHANGED <<hostVars, registryVars, editor, text,
                    intercepted, deb, destroyedOps>>

\* The command nuclide-code-format:format-code with d's editor active.
Command(d, selectionRange) ==
  /\ subscription = "open"
  /\ editor[d] = "open"
  /\ NoTick
  /\ HandleFormat("command", d, selectionRange)

\* editor.save() is called while it is replaced: a save event is emitted.
\* (The real editor.save() does not reach the manager.)
EditorSave(d, selectionRange) ==
  /\ editor[d] = "open"
  /\ NoTick
  /\ intercepted[d]
  /\ HandleFormat("save", d, selectionRange)

(***************************************************************************)
(* The host: editors, buffer changes, configuration                        *)
(***************************************************************************)
\* The buffer changes under the user's hands; debounceTime(0) keeps the
\* last change event of the tick.
\* Mutant of Debounced: the first value is held until the timer fires.
RECURSIVE DebouncedFirst(_, _)
DebouncedFirst(held, edits) ==
  IF edits = <<>> THEN held
  ELSE IF held # NoEdit THEN held
  ELSE DebouncedFirst(Head(edits), Tail(edits))

\* debounceTime(0): every value replaces the one held and restarts the timer.
RECURSIVE Debounced(_, _)
Debounced(held, edits) ==
  IF edits = <<>> THEN held
  ELSE Debounced(Head(edits), Tail(edits))

\* One tick of the host in which the buffer of d changes: onDidChange is
\* called once for each edit (one for each cursor), before any timer fires.
BufferChanges(d, edits, newContents) ==
  /\ subscription = "open"
  /\ editor[d] = "open"
  /\ NoTick
  /\ edits # <<>>
  /\ newContents # text[d]
  /\ \/ deb[d] # NoEdit
     \/ nTrig + Cardinality({x \in Docs : deb[x] # NoEdit}) < MaxTrig
  /\ text' = [text EXCEPT ![d] = newContents]
  /\ deb' = [deb EXCEPT ![d] = Debounced(deb[d], edits)]
  /\ applied' = NoApply
  /\ reported' = NoReport
  /\ handled' = NoHandled
  /\ UNCHANGED <<hostVars, registryVars, subscription, editor, intercepted, nTrig, latest, active, pending, saves, destroyedOps>>

\* A tick with one change
UserEdit(d, event, newContents) == BufferChanges(d, <<event>>, newContents)

(***************************************************************************)
(* _formatCodeOnTypeInTextEditor                                           *)
(***************************************************************************)
\* The debounce timer of d's editor fires: a type event reaches
\* _handleEvent, which runs the synchronous part inside Observable.defer.
HandleType(d, formatOnType) ==
  LET event == deb[d]
      id == nTrig + 1
      old == Superseded(d)
  IN /\ subscription = "open"
     /\ editor[d] = "open"
     /\ NoTick
     /\ event # NoEdit
     /\ nTrig < MaxTrig
     /\ nTrig' = id
     /\ latest' = [latest EXCEPT ![d] = id]
     /\ deb' = [deb EXCEPT ![d] = NoEdit]
     /\ saves' = NextSaves({}, Unsubscribed(old))
     /\ applied' = NoApply
     /\ reported' = NoReport
     /\ IF ~shouldFormatOnType(event) \/ ~formatOnType
        THEN /\ active' = active \ old
             /\ handled' = [NoHandled EXCEPT !.id = id, !.doc = d,
                                             !.kind = "type"]
        ELSE \E matchingProviders \in PositionProviders(d) :
               IF matchingProviders = <<>>
               THEN /\ active' = active \ old
                    /\ handled' = [NoHandled EXCEPT !.id = id, !.doc = d,
                                                    !.kind = "type"]
               ELSE /\ active' = (active \ old) \cup
                         {Op(id, d, "type", text[d], "tick",
                             "formatAtPosition", TriggerCharacter(event))}
                    /\ handled' = [NoHandled EXCEPT
                                     !.id = id, !.doc = d, !.kind = "type",
                                     !.caps = Head(matchingProviders).caps,
                                     !.api = "formatAtPosition"]
     /\ UNCHANGED <<hostVars, registryVars, subscription, editor, text, intercepted, pending, destroyedOps>>

\* nextTick emits: formatAtPosition is called (it may throw).
NextTick(op) ==
  /\ op \in active
  /\ op.phase = "tick"
  /\ applied' = NoApply
  /\ handled' = NoHandled
  /\ \/ /\ pending' = pending \cup
             {Request(op, LET position == Translate(CursorBufferPosition, 0, -1)
                          IN Rng(position, position))}
        /\ active' = (active \ {op}) \cup {[op EXCEPT !.phase = "wait"]}
        /\ reported' = NoReport
        /\ UNCHANGED <<saves, subscription>>
     \/ /\ pending' = pending
        /\ active' = active \ {op}
        /\ Errors(op, "provider", {}, {})
  /\ UNCHANGED <<hostVars, registryVars, editor, text,
                 intercepted, deb, nTrig, latest, destroyedOps>>

(***************************************************************************)
(* Provider promises settle; the save timeout                              *)
(***************************************************************************)
\* The buffer mutation of a formatting result, and the change event the
\* buffer raises for it when the editor's stream is subscribed.
Mutates(op, to) ==
  /\ text' = [text EXCEPT ![op.doc] = to]
  /\ applied' = [id |-> op.id, doc |-> op.doc, kind |-> op.kind,
                   contents |-> op.contents, on |-> text[op.doc],
                   latest |-> latest[op.doc]]
  /\ deb' = IF to # text[op.doc] /\ editor[op.doc] = "open"
               /\ subscription = "open"
            THEN [deb EXCEPT ![op.doc] = Replaced]
            ELSE deb

\* The .map(...) callbacks of lines 238-244, 248-260 and 315-327.
Applies(op, response) ==
  IF op.api = "formatAtPosition" /\ response.edits = "none"
  THEN /\ Completes(op, {}, {})
       /\ applied' = NoApply
       /\ UNCHANGED <<text, deb>>
  ELSE IF ~ContentsAreSame(op.contents, text[op.doc])
  THEN /\ Errors(op, "stale", {}, {})
       /\ applied' = NoApply
       /\ UNCHANGED <<text, deb>>
  ELSE IF response.edits = "rejected"
  THEN /\ Errors(op, "apply", {}, {})
       /\ applied' = NoApply
       /\ UNCHANGED <<text, deb>>
  ELSE IF response.edits = "none"
  THEN /\ Completes(op, {}, {})
       /\ applied' = NoApply
       /\ UNCHANGED <<text, deb>>
  ELSE /\ Completes(op, {}, {})
       /\ Mutates(op, response.to)

Subscribers(request) == {op \in active : op.id = request.id}

Fulfil(request, response) ==
  /\ request \in pending
  /\ NoTick
  /\ response \in Responses(request.api)
  /\ pending' = pending \ {request}
  /\ active' = active \ Subscribers(request)
  /\ handled' = NoHandled
  /\ IF Subscribers(request) = {}
     THEN /\ applied' = NoApply
          /\ reported' = NoReport
          /\ UNCHANGED <<text, deb, saves, subscription>>
     ELSE Applies(CHOOSE op \in Subscribers(request) : TRUE, response)
  /\ UNCHANGED <<hostVars, registryVars, editor,
                 intercepted, nTrig, latest, destroyedOps>>

Reject(request) ==
  /\ request \in pending
  /\ NoTick
  /\ pending' = pending \ {request}
  /\ active' = active \ Subscribers(request)
  /\ applied' = NoApply
  /\ handled' = NoHandled
  /\ IF Subscribers(request) = {}
     THEN /\ reported' = NoReport
          /\ UNCHANGED <<saves, subscription>>
     ELSE Errors(CHOOSE op \in Subscribers(request) : TRUE, "provider", {}, {})
  /\ UNCHANGED <<hostVars, registryVars, editor, text,
                 intercepted, deb, nTrig, latest, destroyedOps>>

\* Mutant of SaveTimeout: the timeout is reported and the buffer saved, but
\* the provider call stays subscribed.
SaveTimeoutStaysSubscribed(op) ==
  /\ op \in active
  /\ op.kind = "save"
  /\ NoTick
  /\ saves[op.id] = 0
  /\ active' = active
  /\ applied' = NoApply
  /\ handled' = NoHandled
  /\ Errors(op, "timeout", {}, {})
  /\ UNCHANGED <<hostVars, registryVars, editor, text,
                 intercepted, deb, nTrig, latest, pending, destroyedOps>>

\* .timeout(SAVE_TIMEOUT) errors before the provider answered.
SaveTimeout(op) ==
  /\ op \in active
  /\ op.kind = "save"
  /\ NoTick
  /\ active' = active \ {op}
  /\ applied' = NoApply
  /\ handled' = NoHandled
  /\ Errors(op, "timeout", {}, {})
  /\ UNCHANGED <<hostVars, registryVars, editor, text,
                 intercepted, deb, nTrig, latest, pending, destroyedOps>>

(***************************************************************************)
(* Teardown                                                                *)
(***************************************************************************)
\* The editor of d is destroyed and with it the buffer: takeUntil ends the
\* editor's stream (restoring save) and the group of the buffer ends.
DestroyEditor(d) ==
  /\ subscription = "open"
  /\ editor[d] = "open"
  /\ NoTick
  /\ editor' = [editor EXCEPT ![d] = "destroyed"]
  /\ applied' = NoApply
  /\ handled' = NoHandled
  /\ reported' = NoReport
  /\ intercepted' = [intercepted EXCEPT ![d] = FALSE]
  /\ deb' = [deb EXCEPT ![d] = NoEdit]
  /\ active' = active \ TornDown(d)
  /\ saves' = NextSaves({}, Unsubscribed(TornDown(d)))
  /\ destroyedOps' = destroyedOps \cup
       {op.id : op \in {o \in active : o.doc = d /\ o.kind # "save"}}
  /\ UNCHANGED <<hostVars, registryVars, subscription, text,
                 nTrig, latest, pending>>

\* CodeFormatManager.dispose()
Dispose ==
  /\ subscription = "open"
  /\ NoTick
  /\ subscription' = "disposed"
  /\ applied' = NoApply
  /\ handled' = NoHandled
  /\ reported' = NoReport
  /\ providers' = <<>>
  /\ intercepted' = [d \in Docs |-> FALSE]
  /\ deb' = [d \in Docs |-> NoEdit]
  /\ active' = {}
  /\ saves' = NextSaves({}, Unsubscribed(active))
  /\ UNCHANGED <<hostVars, disposable, resolved, editor,
                 text, nTrig, latest, pending, destroyedOps>>

(***************************************************************************)
(* Specifications                                                          *)
(***************************************************************************)
\* Registries the arbitration is checked with: each is what addProvider
\* calls alone produce.
InitRegistries == {<<>>, <<PA1, PB5>>, <<PA5>>}

\* The manager is constructed with the editors open: observeTextEditors
\* delivers each, and getFormatOnSave() decides whether its save is replaced.
InitDocs(onSave) ==
  /\ subscription = "open"
  /\ editor = [d \in Docs |-> "open"]
  /\ text = [d \in Docs |-> 0]
  /\ intercepted = [d \in Docs |-> onSave]
  /\ deb = [d \in Docs |-> NoEdit]
  /\ nTrig = 0
  /\ latest = [d \in Docs |-> 0]
  /\ active = {}
  /\ pending = {}
  /\ reported = NoReport
  /\ saves = <<>>
  /\ applied = NoApply
  /\ destroyedOps = {}
  /\ handled = NoHandled

\* No function is probed
NoProbe == [fn |-> None, event |-> NoEdit, selectionRange |-> NoRange,
            done |-> FALSE, accepted |-> FALSE, character |-> None,
            range |-> NoRange]

Init ==
  /\ providers \in InitRegistries
  /\ disposable = {providers[i] : i \in DOMAIN providers}
  /\ resolved = NoResolution
  /\ formatOnSave \in BOOLEAN
  /\ InitDocs(formatOnSave)
  /\ atom = DefaultAtom
  /\ probe = NoProbe

Next ==
  \/ \E d \in Docs, event \in UserEdits, v \in Texts : UserEdit(d, event, v)
  \/ \E d \in Docs, sel \in Selections : Command(d, sel)
  \/ \E d \in Docs, sel \in Selections : EditorSave(d, sel)
  \/ \E d \in Docs, formatOnType \in BOOLEAN : HandleType(d, formatOnType)
  \/ \E op \in active : NextTick(op)
  \/ \E request \in pending :
       \E response \in Responses(request.api) : Fulfil(request, response)
  \/ \E request \in pending : Reject(request)
  \/ \E op \in active : SaveTimeout(op)
  \/ \E d \in Docs : DestroyEditor(d)
  \/ Dispose

Spec == Init /\ [][Next]_vars

\* The registry alone: providers come and go and are resolved.
InitRegistry ==
  /\ providers = <<>>
  /\ disposable = {}
  /\ resolved = NoResolution
  /\ formatOnSave = TRUE
  /\ InitDocs(formatOnSave)
  /\ atom = DefaultAtom
  /\ probe = NoProbe

NextRegistry ==
  \/ \E provider \in ProviderUniverse :
       addProvider(provider) /\ UNCHANGED <<docVars, hostVars>>
  \/ \E provider \in ProviderUniverse :
       DisposeProvider(provider) /\ UNCHANGED <<docVars, hostVars>>
  \/ \E scopeName \in ScopeNames :
       ResolveProviders(scopeName) /\ UNCHANGED <<docVars, hostVars>>

SpecRegistry == InitRegistry /\ [][NextRegistry]_vars

(***************************************************************************)
(* The arbitration with a configuration that changes.  getFormatOnSave()   *)
(* is called when the stream of an editor is subscribed (line 119), and    *)
(* nothing observes the setting afterwards.                                *)
(***************************************************************************)
\* The user sets nuclide-code-format.formatOnSave
SetFormatOnSave(value) ==
  /\ value # formatOnSave
  /\ formatOnSave' = value
  /\ applied' = NoApply
  /\ reported' = NoReport
  /\ handled' = NoHandled
  /\ UNCHANGED <<registryVars, subscription, editor, text, intercepted, deb,
                 nTrig, latest, active, pending, saves, destroyedOps, atom,
                 probe>>

NextConfig ==
  \/ Next
  \/ \E value \in BOOLEAN : SetFormatOnSave(value)

SpecConfig == Init /\ [][NextConfig]_vars

(***************************************************************************)
(* The change stream of the editors: ticks with one or more changes, the   *)
(* debounce timer, and the type path.                                      *)
(***************************************************************************)
\* The edits of a tick
BurstEdits == {TypedChar, TypedBracket, Replaced}

RECURSIVE SeqsUpTo(_, _)
SeqsUpTo(S, n) ==
  IF n = 0 THEN {<<>>}
  ELSE SeqsUpTo(S, n - 1)
       \cup {Append(q, x) : q \in SeqsUpTo(S, n - 1), x \in S}

Bursts == SeqsUpTo(BurstEdits, MaxBurst) \ {<<>>}

NextChanges ==
  \/ \E d \in Docs, edits \in Bursts, v \in Texts : BufferChanges(d, edits, v)
  \/ \E d \in Docs, formatOnType \in BOOLEAN : HandleType(d, formatOnType)
  \/ \E op \in active : NextTick(op)
  \/ \E request \in pending :
       \E response \in Responses(request.api) : Fulfil(request, response)
  \/ \E request \in pending : Reject(request)
  \/ \E d \in Docs : DestroyEditor(d)
  \/ Dispose

SpecChanges == Init /\ [][NextChanges]_vars

(***************************************************************************)
(* The functions alone: each is called once on an input and its result     *)
(* is kept.                                                                *)
(***************************************************************************)
\* atom$TextEditEvent values: deletions, replacements, one character, pairs
\* of characters, a paste
Events ==
  {[oldText |-> o, newText |-> n] :
     o \in {<<>>, <<"a">>},
     n \in {<<>>, <<"x">>, <<"}">>, <<"a", "b">>, <<"{", "}">>, <<"(", ")">>,
            <<"x", "y", "z">>}}
  \cup {TypedChar, TypedBracket, Replaced}

\* Values of bracket-matcher.autocompleteCharacters
Allowlists ==
  {<<>>, DefaultAtom.autocompleteCharacters, <<<<"a", "b">>>>,
   <<<<"x">>, <<"{", "}">>>>}

Atoms ==
  {[active |-> a, autocompleteCharacters |-> l] :
     a \in BOOLEAN, l \in Allowlists}

Points == {Pos(r, c) : r \in 0..2, c \in 0..2}

\* Point.isLessThanOrEqual
PointLeq(p, q) == p.row < q.row \/ (p.row = q.row /\ p.column <= q.column)

SelectedRanges ==
  {r \in {Rng(p, q) : p \in Points, q \in Points} : PointLeq(r.start, r.end)}
  \cup Selections

Probes ==
  {[NoProbe EXCEPT !.fn = "shouldFormatOnType", !.event = e] : e \in Events}
  \cup {[NoProbe EXCEPT !.fn = "formatRange", !.selectionRange = r] :
          r \in SelectedRanges}

\* Lines 275-280: the guard of the type path and the character it keeps
ProbeShouldFormatOnType ==
  /\ probe.fn = "shouldFormatOnType"
  /\ ~probe.done
  /\ probe' = [probe EXCEPT
                 !.done = TRUE,
                 !.accepted = shouldFormatOnType(probe.event),
                 !.character = IF shouldFormatOnType(probe.event)
                               THEN TriggerCharacter(probe.event)
                               ELSE None]
  /\ UNCHANGED <<registryVars, docVars, formatOnSave, atom>>

\* Lines 210-229: the range made of the selection
ProbeFormatRange ==
  /\ probe.fn = "formatRange"
  /\ ~probe.done
  /\ probe' = [probe EXCEPT !.done = TRUE,
                            !.range = FormatRange(probe.selectionRange)]
  /\ UNCHANGED <<registryVars, docVars, formatOnSave, atom>>

InitFunctions ==
  /\ providers = <<>>
  /\ disposable = {}
  /\ resolved = NoResolution
  /\ formatOnSave = TRUE
  /\ InitDocs(formatOnSave)
  /\ atom \in Atoms
  /\ probe \in Probes

NextFunctions == ProbeShouldFormatOnType \/ ProbeFormatRange

SpecFunctions == InitFunctions /\ [][NextFunctions]_vars

(***************************************************************************)
(* Properties                                                              *)
(***************************************************************************)
OpsOf(d) == {op \in active : op.doc = d}

\* C1: in every reachable state, every document has at most one active
\* formatting operation, whatever triggers arrived on it and on the others.
C1_AtMostOneActivePerDocument ==
  \A d \in Docs : Cardinality(OpsOf(d)) <= 1

\* A trigger arrived on a document whose earlier operation was in flight:
\* the earlier provider call is still unanswered, the later is active.
C1_Witness ==
  \E op \in active : \E request \in pending :
    request.doc = op.doc /\ request.id < op.id

\* C2: a formatting result mutates the buffer only on the text that was
\* captured when its operation started.
C2_AppliedOnlyOnSnapshot ==
  applied # NoApply => applied.on = applied.contents

\* A formatting result changed the buffer.
C2_Witness ==
  applied # NoApply /\ text[applied.doc] # applied.on

\* C3: buffer.save() was called exactly once for every save trigger whose
\* processing ended (however it ended), and not yet for one still active.
C3_SaveExactlyOnce ==
  \A id \in DOMAIN saves :
    saves[id] = IF \E op \in active : op.id = id THEN 0 ELSE 1

\* A save ended before its provider answered (timeout, supersession,
\* destruction or disposal) and the buffer was saved.
C3_Witness ==
  \E id \in DOMAIN saves :
    saves[id] = 1 /\ \E request \in pending : request.id = id

\* C4: a result applied on the type path is the result of the most recent
\* trigger of its document.
C4_OnlyLatestTypeResultApplied ==
  applied.kind = "type" => applied.id = applied.latest

\* A type result was applied while the formatAtPosition call of an earlier
\* type trigger of the document is still unanswered.
C4_Witness ==
  /\ applied.kind = "type"
  /\ \E request \in pending :
       /\ request.doc = applied.doc
       /\ request.api = "formatAtPosition"
       /\ request.id < applied.id

StaleReport(request) ==
  [id |-> request.id, doc |-> request.doc,
   kind |-> (CHOOSE op \in Subscribers(request) : TRUE).kind,
   channel |-> Channel((CHOOSE op \in Subscribers(request) : TRUE).kind),
   err |-> "stale"]

\* C5 as claimed: whenever a provider result arrives and the text differs
\* from the text at the request, no edit is applied and the stale-content
\* error is reported for the operation.
C5_StaleAlwaysReported ==
  [][\A request \in pending : \A response \in Responses(request.api) :
       (Fulfil(request, response) /\ text[request.doc] # request.issuedOn)
       => (applied' = NoApply /\ reported'.id = request.id
           /\ reported'.err = "stale")]_vars

\* C5 amended: when a provider result arrives and the text differs from the
\* text at the request, no edit is applied; the stale-content error is
\* reported if the operation is still subscribed and, on the type path, the
\* result holds edits; otherwise nothing is reported.
C5_StaleReportedWhileSubscribed ==
  [][\A request \in pending : \A response \in Responses(request.api) :
       (Fulfil(request, response) /\ text[request.doc] # request.issuedOn)
       => /\ applied' = NoApply
          /\ reported' =
               IF Subscribers(request) # {}
                  /\ ~(request.api = "formatAtPosition"
                       /\ response.edits = "none")
               THEN StaleReport(request)
               ELSE NoReport]_vars

\* The stale-content error was reported.
C5_Witness == reported.err = "stale"

\* C6: an operation of the command or type path that was in flight when its
\* document was destroyed never applies an edit and never reports an error.
C6_DestroyedAbandonedSilently ==
  /\ applied.id \notin destroyedOps
  /\ reported.id \notin destroyedOps

\* A document was destroyed under an operation in flight and the provider
\* has settled since.
C6_Witness ==
  /\ destroyedOps # {}
  /\ \A request \in pending : request.id \notin destroyedOps

\* The list without the provider
Without(list, provider) ==
  LET Other(x) == x # provider IN SelectSeq(list, Other)

\* C7: the disposer of addProvider(p) removes p and nothing else: the other
\* providers stay registered in their order.
C7_DisposerRemovesOnlyItsProvider ==
  [][\A provider \in ProviderUniverse :
       DisposeProvider(provider)
       => providers' = Without(providers, provider)]_vars

\* The list in descending priority, equal priorities in their order
RECURSIVE StableDescending(_)
StableDescending(list) ==
  IF list = <<>> THEN <<>>
  ELSE LET top == CHOOSE i \in DOMAIN list :
                    /\ \A j \in DOMAIN list :
                         list[j].inclusionPriority <= list[i].inclusionPriority
                    /\ \A j \in 1..(i - 1) :
                         list[j].inclusionPriority < list[i].inclusionPriority
       IN <<list[top]>> \o
          StableDescending(SubSeq(list, 1, top - 1)
                           \o SubSeq(list, top + 1, Len(list)))

\* C8: resolution returns the providers whose selector holds the scope name
\* and whose priority is positive, in descending priority, equal priorities
\* in registration order.
C8_ResolutionIsStableDescending ==
  resolved # NoResolution =>
    LET Test(provider) == SelectorMatches(provider, resolved.scopeName)
    IN resolved.result = StableDescending(SelectSeq(resolved.from, Test))

\* C9: a step that reports a failure leaves the subscription open and leaves
\* the operations of every other document as they are.
C9_FailureIsIsolated ==
  [][reported' # NoReport
     => /\ subscription' = "open"
        /\ \A op \in active : op.doc # reported'.doc => op \in active']_vars

\* A failure was reported while another document has an operation in flight.
C9_Witness ==
  /\ reported # NoReport
  /\ subscription = "open"
  /\ \E op \in active : op.doc # reported.doc

\* C10: a failure of a command is reported as a notification, a failure of a
\* type or save event as a logged warning.
C10_ErrorRouting ==
  reported # NoReport =>
    /\ reported.kind = "command" => reported.channel = "notification"
    /\ reported.kind \in {"type", "save"} => reported.channel = "warning"

\* A command failed for want of a provider and a notification was shown.
C10_Witness ==
  /\ reported.kind = "command"
  /\ reported.err = "noProvider"
  /\ reported.channel = "notification"

\* typedText is one of the pairs of the allowlist
InAllowlist(typedText) ==
  \E i \in DOMAIN atom.autocompleteCharacters :
    atom.autocompleteCharacters[i] = typedText

\* C11: the on-type heuristic rejects an edit with a non-empty oldText, an
\* edit with both texts empty, and a newText longer than one character that
\* is not in the allowlist or when bracket matching is inactive; it accepts
\* every other edit, and the character of an accepted edit is the last
\* character of newText.
C11_OnTypeHeuristic ==
  (probe.fn = "shouldFormatOnType" /\ probe.done) =>
    LET oldText == probe.event.oldText
        newText == probe.event.newText
        rejected == \/ oldText # <<>>
                    \/ (oldText = <<>> /\ newText = <<>>)
                    \/ (Len(newText) > 1
                        /\ (~atom.active \/ ~InAllowlist(newText)))
    IN /\ probe.accepted = ~rejected
       /\ probe.accepted => probe.character = newText[Len(newText)]

\* The pair "{}" was accepted with bracket matching active, and "}" kept.
C11_Witness ==
  /\ probe.fn = "shouldFormatOnType"
  /\ probe.done
  /\ probe.event = TypedBracket
  /\ atom = DefaultAtom
  /\ probe.accepted
  /\ probe.character = "}"

\* C12: the format range of a non-empty selection (r1,c1)-(r2,c2) starts at
\* (r1,0) and ends at (r2+1,0) when c2 is not 0 and at (r2,c2) when c2 is 0;
\* the format range of an empty selection is the range of the buffer.
C12_SelectionToRange ==
  (probe.fn = "formatRange" /\ probe.done) =>
    LET start == probe.selectionRange.start
        end == probe.selectionRange.end
    IN IF start = end
       THEN probe.range = BufferRange
       ELSE /\ probe.range.start = [row |-> start.row, column |-> 0]
            /\ end.column # 0 =>
                 probe.range.end = [row |-> end.row + 1, column |-> 0]
            /\ end.column = 0 => probe.range.end = end

\* The selection (2,5)-(2,10) gave the range (2,0)-(3,0).
C12_Witness ==
  /\ probe.fn = "formatRange"
  /\ probe.done
  /\ probe.selectionRange = Rng(Pos(2, 5), Pos(2, 10))
  /\ probe.range = Rng(Pos(2, 0), Pos(3, 0))

\* C13: a save event formats the whole document: the range handed to the
\* provider is the range of the buffer, and formatEntireFile is called when
\* the provider has it, whatever the selection is.
C13_SaveFormatsWholeDocument ==
  (handled.kind = "save" /\ handled.api # None) =>
    /\ handled.range = BufferRange
    /\ "formatEntireFile" \in handled.caps => handled.api = "formatEntireFile"

\* C14: buffer.save() is not called for a save event while its formatting
\* is active, and a step that applies the edits of a save's formatting finds
\* the operation active and its buffer.save() not yet called.
C14_SaveAfterFormatting ==
  [][/\ \A op \in active' : op.kind = "save" => saves'[op.id] = 0
     /\ applied'.kind = "save" =>
          /\ \E op \in active : op.id = applied'.id
          /\ saves[applied'.id] = 0]_vars

\* The edits of a save's formatting were applied and the buffer was saved.
C14_Witness ==
  /\ applied.kind = "save"
  /\ text[applied.doc] # applied.on
  /\ saves[applied.id] = 1

\* C15: when the save timeout expires before the provider answered, the
\* operation ends, the timeout is logged as a warning and buffer.save() is
\* called in that step; a provider result that arrives once the buffer was
\* saved changes nothing in the buffer.
C15_TimeoutDoesNotBlockSave ==
  [][/\ \A op \in active :
          SaveTimeout(op) =>
            /\ op \notin active'
            /\ reported' = [id |-> op.id, doc |-> op.doc, kind |-> "save",
                            channel |-> "warning", err |-> "timeout"]
            /\ saves[op.id] = 0
            /\ saves'[op.id] = 1
     /\ \A request \in pending : \A response \in Responses(request.api) :
          (/\ Fulfil(request, response)
           /\ request.id \in DOMAIN saves
           /\ saves[request.id] >= 1)
          => (applied' = NoApply /\ text' = text)]_vars

\* A save timed out with its provider call unanswered: the timeout was
\* logged and the buffer saved.
C15_Witness ==
  /\ reported.err = "timeout"
  /\ reported.channel = "warning"
  /\ saves[reported.id] = 1
  /\ \E request \in pending : request.id = reported.id

\* C16: the events of a buffer are processed in the order the host delivered
\* them: when a command or save event of a buffer is processed, no change
\* of that buffer delivered before it is still waiting to be processed.
C16_ProcessedInDeliveryOrder ==
  [][\A d \in Docs : \A selectionRange \in Selections :
       (Command(d, selectionRange) \/ EditorSave(d, selectionRange))
       => deb[d] = NoEdit]_vars

\* C17: the format-on-save setting is read when a save is requested: the
\* save of an open document is intercepted exactly when the setting is on
\* at that moment.
C17_FormatOnSaveReadAtSave ==
  \A d \in Docs :
    (editor[d] = "open" /\ subscription = "open")
    => intercepted[d] = formatOnSave

\* A step of document d: an event of it, a provider answer, a timeout or an
\* error of one of its operations, or its destruction.
StepOf(d) ==
  \/ \E event \in UserEdits, v \in Texts : UserEdit(d, event, v)
  \/ \E selectionRange \in Selections :
       Command(d, selectionRange) \/ EditorSave(d, selectionRange)
  \/ \E formatOnType \in BOOLEAN : HandleType(d, formatOnType)
  \/ \E op \in OpsOf(d) : NextTick(op) \/ SaveTimeout(op)
  \/ \E request \in {r \in pending : r.doc = d} :
       \/ Reject(request)
       \/ \E response \in Responses(request.api) : Fulfil(request, response)
  \/ DestroyEditor(d)

\* C18: a step of one document leaves every other document as it is: its
\* operations stay active, its provider calls unanswered, its text, and
\* nothing is applied, reported or saved for it.
C18_DocumentsAreIndependent ==
  [][\A d \in Docs : StepOf(d) =>
       \A b \in Docs \ {d} :
         /\ OpsOf(b) \subseteq active'
         /\ {r \in pending : r.doc = b} \subseteq pending'
         /\ text'[b] = text[b]
         /\ applied'.doc # b
         /\ reported'.doc # b
         /\ \A op \in OpsOf(b) : op.kind = "save" => saves'[op.id] = 0]_vars

\* An event of one document was handled while an operation of another
\* document was in flight.
C18_Witness ==
  /\ handled.kind # None
  /\ \E op \in active : op.doc # handled.doc /\ op.id < handled.id

C20_OperationChoice ==
  [][\A d \in Docs : \A selectionRange \in Selections :
       (Command(d, selectionRange) /\ handled'.caps # {}) =>
         LET empty == selectionRange.start = selectionRange.end
             caps == handled'.caps
         IN /\ (~empty /\ "formatCode" \in caps) => handled'.api = "formatCode"
            /\ (~(~empty /\ "formatCode" \in caps)
                /\ "formatEntireFile" \in caps)
               => handled'.api = "formatEntireFile"
            /\ (empty /\ handled'.api = "formatCode")
               => /\ "formatEntireFile" \notin caps
                  /\ handled'.range = BufferRange
            /\ handled'.api \in {"formatCode", "formatEntireFile"}
            /\ Cardinality(pending' \ pending) <= 1
            /\ \A request \in pending' \ pending :
                 request.api = handled'.api /\ request.id = handled'.id]_vars

\* A command with an empty selection called formatEntireFile of a provider
\* that has formatCode too.
C20_Witness ==
  /\ handled.kind = "command"
  /\ handled.selection.start = handled.selection.end
  /\ handled.caps = {"formatCode", "formatEntireFile"}
  /\ handled.api = "formatEntireFile"
  /\ \E request \in pending : request.id = handled.id

\* The changes of one tick are held as one value, the last, and are no
\* trigger yet; what is held becomes one type trigger, which carries it,
\* when the timer fires, or is dropped with the editor or the manager.
Coalesces(d) ==
  /\ \A edits \in Bursts : \A v \in Texts :
       BufferChanges(d, edits, v) =>
         /\ deb'[d] = edits[Len(edits)]
         /\ nTrig' = nTrig
         /\ active' = active
         /\ handled' = NoHandled
  /\ \A formatOnType \in BOOLEAN :
       HandleType(d, formatOnType) =>
         /\ deb[d] # NoEdit
         /\ deb'[d] = NoEdit
         /\ nTrig' = nTrig + 1
         /\ handled'.kind = "type"
         /\ handled'.id = nTrig'
         /\ \A op \in active' \ active :
              /\ op.id = nTrig'
              /\ op.character = deb[d].newText[Len(deb[d].newText)]
  /\ (DestroyEditor(d) \/ Dispose) => (deb'[d] = NoEdit /\ nTrig' = nTrig)

\* C21 as claimed: the changes of one tick make one type trigger, after the
\* tick, that carries the last of them, and changes of different ticks make
\* separate type triggers: no tick's changes arrive while those of an
\* earlier tick are held.
C21_OneTriggerForEachTick ==
  [][\A d \in Docs :
       /\ Coalesces(d)
       /\ \A edits \in Bursts : \A v \in Texts :
            BufferChanges(d, edits, v) => deb[d] = NoEdit]_vars

\* C21 amended: the changes of one tick are coalesced into the last of them,
\* together with whatever was held from earlier ticks; one type trigger
\* carrying the value held is made when the timer fires, and none when the
\* editor is destroyed or the manager disposed before.
C21_OneTriggerForEachTimerExpiry ==
  [][\A d \in Docs : Coalesces(d)]_vars

\* A type trigger that carries "{}", the last edit held, started formatting
\* with the character "}".
C21_Witness ==
  /\ handled.kind = "type"
  /\ handled.api = "formatAtPosition"
  /\ \E op \in active :
       op.id = handled.id /\ op.phase = "tick" /\ op.character = "}"

\* No registered provider of positive priority whose selector holds the
\* grammar of d has formatAtPosition.
NoPositionProvider(d) ==
  \A i \in DOMAIN providers :
    ~(/\ "formatAtPosition" \in providers[i].caps
      /\ providers[i].inclusionPriority > 0
      /\ \E j \in DOMAIN Split(providers[i].selector) :
           Split(providers[i].selector)[j] = Grammar(d))

\* C22: a type event handled while format-on-type is off, or whose edit the
\* heuristic rejects, or for which no provider with formatAtPosition
\* resolves, calls no provider, starts no operation, leaves the buffer as
\* it is and reports no error.
C22_TypeEventNoOp ==
  [][\A d \in Docs : \A formatOnType \in BOOLEAN :
       (/\ HandleType(d, formatOnType)
        /\ \/ ~formatOnType
           \/ ~shouldFormatOnType(deb[d])
           \/ NoPositionProvider(d))
       => /\ active' \subseteq active
          /\ pending' = pending
          /\ text' = text
          /\ applied' = NoApply
          /\ reported' = NoReport
          /\ handled'.api = None
          /\ subscription' = subscription]_vars

\* A type event was handled for a buffer whose providers have formatCode or
\* formatEntireFile but not formatAtPosition, and nothing was started.
C22_Witness ==
  /\ handled.kind = "type"
  /\ handled.api = None
  /\ NoPositionProvider(handled.doc)
  /\ providers # <<>>
  /\ reported = NoReport
  /\ OpsOf(handled.doc) = {}

====
